---- MODULE Spec2Model ----
(***************************************************************************)
(* A model of the PhD-insights dashboard (js/app.js): spreadsheet rows are *)
(* normalised, filtered by three select elements, aggregated and rendered  *)
(* into summary cards, a table and three charts.                           *)
(*                                                                         *)
(* Strings are sequences of characters (one-character TLA+ strings), so    *)
(* that trimming, comma removal, number parsing, collation and property    *)
(* key classification are computed and not assumed.  The only multi-       *)
(* character unit is "Infinity", which parseFloat recognises as a word;    *)
(* the bounded universes hold no string with only a part of that word.     *)
(* Numbers are exact decimals num / 10^exp together with NaN, Infinity and *)
(* -Infinity.                                                              *)
(***************************************************************************)
EXTENDS Integers, Sequences, FiniteSets, Bags, TLC

VARIABLES
    allRows,        \* app.js:15   the normalised record set
    charts,         \* app.js:16   the three Chart.js handles
    domainFilter,   \* app.js:4    <select>: [options, value]
    statusFilter,   \* app.js:5
    facultyFilter,  \* app.js:6
    summary,        \* app.js:8-11 text of the four summary cards
    tableBody,      \* app.js:13   rows of the projects table
    pending,        \* FileReaders whose read has not completed yet
    lastEvent,      \* history: the handler that ran last
    lastSelected,   \* history: the file chosen most recently (SpecRace only)
    input,          \* argument of the function under test (function specs)
    output          \* its result

vars == <<allRows, charts, domainFilter, statusFilter, facultyFilter, summary,
          tableBody, pending, lastEvent, lastSelected, input, output>>

domVars == <<allRows, charts, domainFilter, statusFilter, facultyFilter,
             summary, tableBody>>

-----------------------------------------------------------------------------
(* Bounds of the model *)

MaxLen == 3

MaxRows == 2

MaxPending == 1

-----------------------------------------------------------------------------
(* Strings *)

Whitespace == {" ", "\t"}

Digits == {"0", "1", "2", "3", "4", "5", "6", "7", "8", "9"}

DigitVal(c) ==
    CASE c = "0" -> 0 [] c = "1" -> 1 [] c = "2" -> 2 [] c = "3" -> 3
      [] c = "4" -> 4 [] c = "5" -> 5 [] c = "6" -> 6 [] c = "7" -> 7
      [] c = "8" -> 8 [] c = "9" -> 9

DigitChar(d) == <<"0", "1", "2", "3", "4", "5", "6", "7", "8", "9">>[d + 1]

RECURSIVE SeqsUpTo(_, _)
SeqsUpTo(S, n) ==
    IF n = 0 THEN {<<>>}
    ELSE LET shorter == SeqsUpTo(S, n - 1)
         IN  shorter \cup {Append(s, c) : s \in shorter, c \in S}


RECURSIVE TrimStart(_)
TrimStart(s) ==
    IF s # <<>> /\ Head(s) \in Whitespace THEN TrimStart(Tail(s)) ELSE s

RECURSIVE TrimEnd(_)
TrimEnd(s) ==
    IF s # <<>> /\ s[Len(s)] \in Whitespace
    THEN TrimEnd(SubSeq(s, 1, Len(s) - 1)) ELSE s

\* String.prototype.trim
Trim(s) == TrimEnd(TrimStart(s))

\* s.replace(/,/g, "")
RemoveCommas(s) == SelectSeq(s, LAMBDA c : c # ",")

RECURSIVE DigitPrefix(_)
DigitPrefix(s) ==
    IF s # <<>> /\ Head(s) \in Digits
    THEN <<Head(s)>> \o DigitPrefix(Tail(s)) ELSE <<>>

Drop(s, n) == SubSeq(s, n + 1, Len(s))

-----------------------------------------------------------------------------
(* Numbers *)

Fin(n, e) == [kind |-> "finite", num |-> n, exp |-> e]
NaN       == [kind |-> "NaN", num |-> 0, exp |-> 0]
PosInf    == [kind |-> "Infinity", num |-> 1, exp |-> 0]
NegInf    == [kind |-> "Infinity", num |-> -1, exp |-> 0]
Zero      == Fin(0, 0)
One       == Fin(1, 0)

IsFinite(x) == x.kind = "finite"

RECURSIVE Pow10(_)
Pow10(n) == IF n = 0 THEN 1 ELSE 10 * Pow10(n - 1)

\* the canonical form of num / 10^exp: no trailing zero in the fraction
RECURSIVE Norm(_, _)
Norm(n, e) ==
    IF e > 0 /\ n % 10 = 0 THEN Norm(n \div 10, e - 1) ELSE Fin(n, e)

Neg(x) == [x EXCEPT !.num = -x.num]

\* a + b on numbers
Add(a, b) ==
    CASE a.kind = "NaN" \/ b.kind = "NaN" -> NaN
      [] a.kind = "Infinity" /\ b.kind = "Infinity" ->
            IF a.num = b.num THEN a ELSE NaN
      [] a.kind = "Infinity" -> a
      [] b.kind = "Infinity" -> b
      [] OTHER ->
            LET e == IF a.exp > b.exp THEN a.exp ELSE b.exp
            IN  Norm(a.num * Pow10(e - a.exp) + b.num * Pow10(e - b.exp), e)

\* ToBoolean of a number: 0 and NaN are falsy
NumTruthy(x) == ~(x.kind = "NaN" \/ (x.kind = "finite" /\ x.num = 0))

RECURSIVE DigitsValue(_)
DigitsValue(ds) ==
    IF ds = <<>> THEN 0
    ELSE 10 * DigitsValue(SubSeq(ds, 1, Len(ds) - 1)) + DigitVal(ds[Len(ds)])

RECURSIVE NatToString(_)
NatToString(n) ==
    IF n < 10 THEN <<DigitChar(n)>>
    ELSE NatToString(n \div 10) \o <<DigitChar(n % 10)>>

\* the digits of n, left-padded with zeros to width w
RECURSIVE PadDigits(_, _)
PadDigits(n, w) ==
    IF w = 0 THEN <<>> ELSE PadDigits(n \div 10, w - 1) \o <<DigitChar(n % 10)>>

Abs(n) == IF n < 0 THEN -n ELSE n

\* Number.prototype.toString for the decimals of the model
NumberToString(x) ==
    CASE x.kind = "NaN" -> <<"N", "a", "N">>
      [] x.kind = "Infinity" ->
            IF x.num < 0 THEN <<"-", "Infinity">> ELSE <<"Infinity">>
      [] OTHER ->
            LET m    == Abs(x.num)
                sign == IF x.num < 0 THEN <<"-">> ELSE <<>>
                int  == NatToString(m \div Pow10(x.exp))
            IN  IF x.exp = 0 THEN sign \o int
                ELSE sign \o int \o <<".">> \o PadDigits(m % Pow10(x.exp), x.exp)

\* Number.prototype.toFixed(2).  The sheets of the model carry at most two
\* fraction digits, for which no rounding takes place; toFixed of a finer
\* decimal depends on its binary expansion and is left undefined.
ToFixed2(x) ==
    CASE x.kind = "NaN" -> <<"N", "a", "N">>
      [] x.kind = "Infinity" ->
            IF x.num < 0 THEN <<"-", "Infinity">> ELSE <<"Infinity">>
      [] x.kind = "finite" /\ x.exp <= 2 ->
            LET m    == Abs(x.num) * Pow10(2 - x.exp)
                sign == IF x.num < 0 THEN <<"-">> ELSE <<>>
            IN  sign \o NatToString(m \div 100) \o <<".">> \o PadDigits(m % 100, 2)

\* parseFloat: skip leading white space, then read the longest prefix that
\* is a decimal literal ([+-] Infinity | digits [. digits] | . digits); the
\* alphabet of the model has no exponent letter.
ParseFloat(s) ==
    LET t      == TrimStart(s)
        signed == t # <<>> /\ Head(t) \in {"-", "+"}
        neg    == t # <<>> /\ Head(t) = "-"
        u      == IF signed THEN Tail(t) ELSE t
        int    == DigitPrefix(u)
        rest   == Drop(u, Len(int))
        dot    == rest # <<>> /\ Head(rest) = "."
        frac   == IF dot THEN DigitPrefix(Tail(rest)) ELSE <<>>
        mag    == Norm(DigitsValue(int \o frac), Len(frac))
    IN  CASE u # <<>> /\ Head(u) = "Infinity" -> IF neg THEN NegInf ELSE PosInf
          [] int = <<>> /\ frac = <<>> -> NaN
          [] OTHER -> IF neg THEN Neg(mag) ELSE mag

-----------------------------------------------------------------------------
(* Cell values as the spreadsheet library hands them over *)

Undefined == [type |-> "undefined", s |-> <<>>, n |-> Zero, b |-> FALSE]
StrV(cs)  == [type |-> "string", s |-> cs, n |-> Zero, b |-> FALSE]
NumV(x)   == [type |-> "number", s |-> <<>>, n |-> x, b |-> FALSE]
BoolV(v)  == [type |-> "boolean", s |-> <<>>, n |-> Zero, b |-> v]

\* ToBoolean
Truthy(v) ==
    CASE v.type = "undefined" -> FALSE
      [] v.type = "string" -> v.s # <<>>
      [] v.type = "number" -> NumTruthy(v.n)
      [] v.type = "boolean" -> v.b
      [] v.type = "object" -> TRUE

\* String(v)
StringOf(v) ==
    CASE v.type = "undefined" -> <<"u", "n", "d", "e", "f", "i", "n", "e", "d">>
      [] v.type = "string" -> v.s
      [] v.type = "number" -> NumberToString(v.n)
      [] v.type = "boolean" ->
            IF v.b THEN <<"t", "r", "u", "e">> ELSE <<"f", "a", "l", "s", "e">>
      [] v.type = "object" -> v.s

\* a || b
Or(a, b) == IF Truthy(a) THEN a ELSE b

\* row[column]: a column the sheet does not have reads as undefined
Cell(row, column) == IF column \in DOMAIN row THEN row[column] ELSE Undefined

TextField(row, column) == Trim(StringOf(Or(Cell(row, column), StrV(<<>>))))

\* app.js:52
AmountField(row) ==
    LET parsed == ParseFloat(RemoveCommas(
                      StringOf(Or(Cell(row, "Amount(in lakhs)"), StrV(<<"0">>)))))
    IN  IF NumTruthy(parsed) THEN parsed ELSE Zero

normalizeRow(row) ==
    [Domain        |-> TextField(row, "Domain"),
     ProjectType   |-> TextField(row, "Project Type"),
     Title         |-> TextField(row, "Title"),
     FundingAgency |-> TextField(row, "Funding Agency"),
     Amount        |-> AmountField(row),
     Status        |-> TextField(row, "Status"),
     FacultyName   |-> TextField(row, "Faculty Name")]

-----------------------------------------------------------------------------
(* Plain objects used as maps: acc = {} *)

Unknown == <<"U", "n", "k", "n", "o", "w", "n">>

ProtoKey == <<"_", "_", "p", "r", "o", "t", "o", "_", "_">>

\* the methods every plain object inherits from Object.prototype
ObjectPrototypeMethods ==
    {<<"c", "o", "n", "s", "t", "r", "u", "c", "t", "o", "r">>,
     <<"h", "a", "s", "O", "w", "n", "P", "r", "o", "p", "e", "r", "t", "y">>,
     <<"i", "s", "P", "r", "o", "t", "o", "t", "y", "p", "e", "O", "f">>,
     <<"p", "r", "o", "p", "e", "r", "t", "y", "I", "s", "E", "n", "u", "m", "e", "r", "a", "b", "l", "e">>,
     <<"t", "o", "L", "o", "c", "a", "l", "e", "S", "t", "r", "i", "n", "g">>,
     <<"t", "o", "S", "t", "r", "i", "n", "g">>,
     <<"v", "a", "l", "u", "e", "O", "f">>,
     <<"_", "_", "d", "e", "f", "i", "n", "e", "G", "e", "t", "t", "e", "r", "_", "_">>,
     <<"_", "_", "d", "e", "f", "i", "n", "e", "S", "e", "t", "t", "e", "r", "_", "_">>,
     <<"_", "_", "l", "o", "o", "k", "u", "p", "G", "e", "t", "t", "e", "r", "_", "_">>,
     <<"_", "_", "l", "o", "o", "k", "u", "p", "S", "e", "t", "t", "e", "r", "_", "_">>}

\* what reading an inherited member gives: a function (or, for __proto__,
\* Object.prototype itself); in a string context its text is one opaque unit
InheritedV(key) ==
    [type |-> "object", s |-> <<"[native ">> \o key \o <<"]">>, n |-> Zero, b |-> TRUE]

\* An object is the sequence of its own properties in creation order.
HasOwn(obj, key) == \E i \in 1..Len(obj) : obj[i].key = key

OwnValue(obj, key) ==
    obj[CHOOSE i \in 1..Len(obj) : obj[i].key = key].value

\* obj[key]: own property, else the prototype chain, else undefined
ObjGet(obj, key) ==
    IF HasOwn(obj, key) THEN OwnValue(obj, key)
    ELSE IF key \in ObjectPrototypeMethods \cup {ProtoKey} THEN InheritedV(key)
    ELSE Undefined

\* obj[key] = value: assigning a primitive to __proto__ is ignored by the
\* accessor; any other key becomes (or stays) an own property
ObjSet(obj, key, value) ==
    IF key = ProtoKey THEN obj
    ELSE IF HasOwn(obj, key)
         THEN [i \in 1..Len(obj) |->
                  IF obj[i].key = key THEN [key |-> key, value |-> value] ELSE obj[i]]
         ELSE Append(obj, [key |-> key, value |-> value])

\* a <= b for two digit sequences of the same length
RECURSIVE DigitsLeq(_, _)
DigitsLeq(a, b) ==
    IF a = <<>> THEN TRUE
    ELSE IF DigitVal(Head(a)) # DigitVal(Head(b)) THEN DigitVal(Head(a)) < DigitVal(Head(b))
    ELSE DigitsLeq(Tail(a), Tail(b))

\* numeric order of canonical numerals: by length, then digit by digit
IndexLeq(a, b) == Len(a) < Len(b) \/ (Len(a) = Len(b) /\ DigitsLeq(a, b))

\* 2^32 - 2, the largest array index
MaxArrayIndex == <<"4", "2", "9", "4", "9", "6", "7", "2", "9", "4">>

\* a canonical array index: "0", "7", "10", ... up to 2^32 - 2
IsArrayIndex(key) ==
    /\ key # <<>>
    /\ \A i \in 1..Len(key) : key[i] \in Digits
    /\ (Len(key) = 1 \/ key[1] # "0")
    /\ IndexLeq(key, MaxArrayIndex)

\* the elements of a sequence of index keys, ascending by value
RECURSIVE SortIndexKeys(_)
SortIndexKeys(keys) ==
    IF keys = <<>> THEN <<>>
    ELSE LET m == CHOOSE i \in 1..Len(keys) :
                      \A j \in 1..Len(keys) : IndexLeq(keys[i], keys[j])
         IN  <<keys[m]>> \o
             SortIndexKeys(SubSeq(keys, 1, m - 1) \o SubSeq(keys, m + 1, Len(keys)))

OwnKeys(obj) == [i \in 1..Len(obj) |-> obj[i].key]

\* Object.keys(obj): index keys in ascending numeric order, then the other
\* keys in creation order (OrdinaryOwnPropertyKeys)
ObjectKeys(obj) ==
    SortIndexKeys(SelectSeq(OwnKeys(obj), IsArrayIndex))
        \o SelectSeq(OwnKeys(obj), LAMBDA k : ~IsArrayIndex(k))

\* a + b: numeric addition of two numbers, string concatenation otherwise
Plus(a, b) ==
    IF a.type = "number" /\ b.type = "number" THEN NumV(Add(a.n, b.n))
    ELSE StrV(StringOf(a) \o StringOf(b))

-----------------------------------------------------------------------------
(* aggregateBy *)

\* the key callbacks of app.js:196-198, and the bare field read of the
\* documented use aggregateBy(records, r => r.domain)
CallKeyFn(keyFn, r) ==
    CASE keyFn = "r.Domain || Unknown" -> IF r.Domain # <<>> THEN r.Domain ELSE Unknown
      [] keyFn = "r.Status || Unknown" -> IF r.Status # <<>> THEN r.Status ELSE Unknown
      [] keyFn = "r.Domain" -> r.Domain

\* the value callback of app.js:197; "undefined" is the omitted argument
CallValueFn(valueFn, r) ==
    CASE valueFn = "r.Amount || 0" -> IF NumTruthy(r.Amount) THEN r.Amount ELSE Zero

\* one pass of the forEach body, app.js:305-307
AggregateStep(acc, r, keyFn, valueFn) ==
    LET k     == CallKeyFn(keyFn, r)
        key   == IF k # <<>> THEN k ELSE Unknown
        value == IF valueFn # "undefined" THEN NumV(CallValueFn(valueFn, r)) ELSE NumV(One)
    IN  ObjSet(acc, key, Plus(Or(ObjGet(acc, key), NumV(Zero)), value))

RECURSIVE aggregateBy(_, _, _)
aggregateBy(rows, keyFn, valueFn) ==
    IF rows = <<>> THEN <<>>
    ELSE AggregateStep(aggregateBy(SubSeq(rows, 1, Len(rows) - 1), keyFn, valueFn),
                       rows[Len(rows)], keyFn, valueFn)

-----------------------------------------------------------------------------
(* applyFilters *)

\* the predicate of rows.filter, app.js:63-68
\* a predicate that lets a record pass on its domain alone
FilterPredicateDomainOnly(r, domain, status, faculty) ==
    domain = <<>> \/ r.Domain = domain

FilterPredicate(r, domain, status, faculty) ==
    LET domainOk  == domain = <<>> \/ r.Domain = domain
        statusOk  == status = <<>> \/ r.Status = status
        facultyOk == faculty = <<>> \/ r.FacultyName = faculty
    IN  domainOk /\ statusOk /\ facultyOk

applyFilters(rows, domain, status, faculty) ==
    SelectSeq(rows, LAMBDA r : FilterPredicate(r, domain, status, faculty))

-----------------------------------------------------------------------------
(* Filter options: populateFilterOptions and fillSelect *)

LowerCase == <<"a", "b", "c", "d", "e", "f", "g", "h", "i", "j", "k", "l", "m",
               "n", "o", "p", "q", "r", "s", "t", "u", "v", "w", "x", "y", "z">>

UpperCase == <<"A", "B", "C", "D", "E", "F", "G", "H", "I", "J", "K", "L", "M",
               "N", "O", "P", "Q", "R", "S", "T", "U", "V", "W", "X", "Y", "Z">>

IndexIn(seq, c) == CHOOSE i \in 1..Len(seq) : seq[i] = c

IsLower(c) == \E i \in 1..26 : LowerCase[i] = c
IsUpper(c) == \E i \in 1..26 : UpperCase[i] = c

\* UTF-16 code unit of the digits and letters
CodeUnit(c) ==
    CASE c \in Digits -> 48 + DigitVal(c)
      [] IsUpper(c) -> 64 + IndexIn(UpperCase, c)
      [] IsLower(c) -> 96 + IndexIn(LowerCase, c)

\* Collation weights of the digits and letters in the root collation the
\* browsers' localeCompare uses: digits before letters, a letter's case
\* only a third-level difference, lower case first.
PrimaryWeight(c) ==
    CASE c \in Digits -> DigitVal(c)
      [] IsUpper(c) -> 10 + IndexIn(UpperCase, c)
      [] IsLower(c) -> 10 + IndexIn(LowerCase, c)

TertiaryWeight(c) == IF IsUpper(c) THEN 1 ELSE 0

\* -1, 0, 1: the lexicographic comparison of two sequences by a weight
RECURSIVE CompareBy(_, _, _)
CompareBy(a, b, level) ==
    LET w(c) == CASE level = "primary" -> PrimaryWeight(c)
                  [] level = "tertiary" -> TertiaryWeight(c)
                  [] level = "codeunit" -> CodeUnit(c)
    IN  CASE a = <<>> /\ b = <<>> -> 0
          [] a = <<>> -> -1
          [] b = <<>> -> 1
          [] w(Head(a)) < w(Head(b)) -> -1
          [] w(Head(a)) > w(Head(b)) -> 1
          [] OTHER -> CompareBy(Tail(a), Tail(b), level)

\* a.localeCompare(b): all primary differences count before any case difference
LocaleCompare(a, b) ==
    IF CompareBy(a, b, "primary") # 0 THEN CompareBy(a, b, "primary")
    ELSE CompareBy(a, b, "tertiary")

\* the comparator handed to sort, app.js:97
\* the default comparator of Array.prototype.sort, by code units
SortComparatorCodeUnits(a, b) == CompareBy(a, b, "codeunit")

SortComparator(a, b) == LocaleCompare(a, b)

\* insert v into a sorted sequence, after the elements that do not exceed it
RECURSIVE SortedInsert(_, _)
SortedInsert(sorted, v) ==
    IF sorted = <<>> THEN <<v>>
    ELSE IF SortComparator(v, sorted[Len(sorted)]) < 0
         THEN Append(SortedInsert(SubSeq(sorted, 1, Len(sorted) - 1), v),
                     sorted[Len(sorted)])
         ELSE Append(sorted, v)

\* Array.prototype.sort with the comparator (stable)
RECURSIVE ArraySort(_)
ArraySort(arr) ==
    IF arr = <<>> THEN <<>>
    ELSE SortedInsert(ArraySort(SubSeq(arr, 1, Len(arr) - 1)), arr[Len(arr)])

Includes(arr, v) == \E i \in 1..Len(arr) : arr[i] = v

\* Set.prototype.add: a Set is the sequence of its members in insertion order
SetAdd(set, v) == IF Includes(set, v) THEN set ELSE Append(set, v)

AllOption == [value |-> <<>>, text |-> <<"A", "l", "l">>]

\* fillSelect without the assignment of app.js:106-108
fillSelectWithoutRestore(selectEl, values) ==
    [options |-> <<AllOption>> \o
                 [i \in 1..Len(ArraySort(values)) |->
                    [value |-> ArraySort(values)[i], text |-> ArraySort(values)[i]]],
     value   |-> <<>>]

\* A <select> is [options, value].  After innerHTML = "" and the appends no
\* option is marked selected, so the element shows its first option (All)
\* and its value is "" unless the assignment of app.js:107 takes place.
fillSelect(selectEl, values) ==
    LET current == selectEl.value
        sorted  == ArraySort(values)
        options == <<AllOption>> \o
                   [i \in 1..Len(sorted) |-> [value |-> sorted[i], text |-> sorted[i]]]
    IN  [options |-> options,
         value   |-> IF current # <<>> /\ Includes(values, current)
                     THEN current ELSE <<>>]

\* the three Sets built by the forEach of app.js:76-80
RECURSIVE CollectValues(_, _)
CollectValues(rows, field) ==
    IF rows = <<>> THEN <<>>
    ELSE LET before == CollectValues(SubSeq(rows, 1, Len(rows) - 1), field)
             v      == rows[Len(rows)][field]
         IN  IF v # <<>> THEN SetAdd(before, v) ELSE before

populateFilterOptions(rows, selects) ==
    [domainFilter  |-> fillSelect(selects.domainFilter, CollectValues(rows, "Domain")),
     statusFilter  |-> fillSelect(selects.statusFilter, CollectValues(rows, "Status")),
     facultyFilter |-> fillSelect(selects.facultyFilter, CollectValues(rows, "FacultyName"))]

-----------------------------------------------------------------------------
(* Rendering *)

Dash == <<"-">>

NoCharts == [projectsByDomain |-> <<>>, fundingByDomain |-> <<>>, projectsByStatus |-> <<>>]

\* a chart handle is <<>> (null) or <<config>>
Chart(type, labels, data) == <<[type |-> type, labels |-> labels, data |-> data]>>

clearSummary ==
    [totalProjects |-> Dash, totalFunding |-> Dash,
     uniqueDomains |-> Dash, statusBreakdown |-> Dash]

RECURSIVE SumAmounts(_)
SumAmounts(rows) ==
    IF rows = <<>> THEN Zero
    ELSE LET r == rows[Len(rows)]
         IN  Add(SumAmounts(SubSeq(rows, 1, Len(rows) - 1)),
                 IF NumTruthy(r.Amount) THEN r.Amount ELSE Zero)

\* the statusCounts reduce of app.js:137-141: the body of aggregateBy again
StatusCounts(rows) == aggregateBy(rows, "r.Status || Unknown", "undefined")

\* arr.join(sep)
RECURSIVE Join(_, _)
Join(arr, sep) ==
    IF arr = <<>> THEN <<>>
    ELSE IF Len(arr) = 1 THEN arr[1]
    ELSE Join(SubSeq(arr, 1, Len(arr) - 1), sep) \o sep \o arr[Len(arr)]

StatusBreakdown(rows) ==
    LET counts == StatusCounts(rows)
        keys   == ObjectKeys(counts)
    IN  Join([i \in 1..Len(keys) |->
                 keys[i] \o <<":", " ">> \o StringOf(OwnValue(counts, keys[i]))],
             <<" ", "|", " ">>)

updateSummary(rows) ==
    [totalProjects   |-> NatToString(Len(rows)),
     totalFunding    |-> ToFixed2(SumAmounts(rows)),
     uniqueDomains   |-> NatToString(Len(CollectValues(rows, "Domain"))),
     statusBreakdown |-> StatusBreakdown(rows)]

renderTable(rows) ==
    [i \in 1..Len(rows) |->
        <<rows[i].Domain, rows[i].ProjectType, rows[i].Title, rows[i].FundingAgency,
          ToFixed2(rows[i].Amount), rows[i].Status, rows[i].FacultyName>>]

\* a ?? b
Coalesce(a, b) == IF a.type = "undefined" THEN b ELSE a

renderCharts(rows) ==
    LET byDomain        == aggregateBy(rows, "r.Domain || Unknown", "undefined")
        fundingByDomain == aggregateBy(rows, "r.Domain || Unknown", "r.Amount || 0")
        byStatus        == aggregateBy(rows, "r.Status || Unknown", "undefined")
        domainLabels    == ObjectKeys(byDomain)
        domainCounts    == [i \in 1..Len(domainLabels) |-> ObjGet(byDomain, domainLabels[i])]
        domainFunding   == [i \in 1..Len(domainLabels) |->
                               Coalesce(ObjGet(fundingByDomain, domainLabels[i]), NumV(Zero))]
        statusLabels    == ObjectKeys(byStatus)
        statusCounts    == [i \in 1..Len(statusLabels) |-> ObjGet(byStatus, statusLabels[i])]
    IN  [projectsByDomain |-> Chart("bar", domainLabels, domainCounts),
         fundingByDomain  |-> Chart("bar", domainLabels, domainFunding),
         projectsByStatus |-> Chart("pie", statusLabels, statusCounts)]

\* render(rows) with the three select values read by applyFilters
render(rows, domain, status, faculty) ==
    IF rows = <<>>
    THEN [summary |-> clearSummary, tableBody |-> <<>>, charts |-> NoCharts]
    ELSE LET filtered == applyFilters(rows, domain, status, faculty)
         IN  [summary   |-> updateSummary(filtered),
              tableBody |-> renderTable(filtered),
              charts    |-> renderCharts(filtered)]

-----------------------------------------------------------------------------
(* The dashboard: files, handlers and the page *)

\* a row of sheet_to_json(worksheet, { defval: "" }): every header is a key
Row(domain, status, faculty, amount) ==
    ("Domain" :> domain) @@ ("Project Type" :> StrV(<<>>)) @@ ("Title" :> StrV(<<>>))
        @@ ("Funding Agency" :> StrV(<<>>)) @@ ("Amount(in lakhs)" :> amount)
        @@ ("Status" :> status) @@ ("Faculty Name" :> faculty)

\* the rows the sheets of the model are made of (sheet_to_json, defval "")
SheetRows ==
    {Row(StrV(<<"B">>), StrV(<<"o">>), StrV(<<"k">>), StrV(<<"2", ",", "5", "0", "0">>)),
     Row(StrV(<<" ", "a">>), StrV(<<>>), StrV(<<>>), StrV(<<"Infinity">>))}

\* a file the user can choose: a workbook with one sheet, or bytes that
\* XLSX.read rejects
Workbook(rows) == [readable |-> TRUE, rows |-> rows]
Unreadable     == [readable |-> FALSE, rows |-> <<>>]

Files == {Workbook(rows) : rows \in SeqsUpTo(SheetRows, MaxRows)} \cup {Unreadable}

NoFile == [readable |-> FALSE, rows |-> <<"none">>]

Page ==
    [allRows |-> allRows, domainFilter |-> domainFilter, statusFilter |-> statusFilter,
     facultyFilter |-> facultyFilter, summary |-> summary, tableBody |-> tableBody,
     charts |-> charts]

\* json.map((row) => normalizeRow(row))
NormalizeAll(rows) == [i \in 1..Len(rows) |-> normalizeRow(rows[i])]

\* what the page shows before the first event: the record set is empty
InitialView == [summary |-> clearSummary, tableBody |-> <<>>, charts |-> NoCharts]

EmptySelect == [options |-> <<AllOption>>, value |-> <<>>]

PageWith(rows, selects, view) ==
    [allRows |-> rows,
     domainFilter |-> selects.domainFilter,
     statusFilter |-> selects.statusFilter,
     facultyFilter |-> selects.facultyFilter,
     summary |-> view.summary, tableBody |-> view.tableBody, charts |-> view.charts]

\* render(allRows) on a page whose selects are `selects`
RenderSelected(rows, selects) ==
    render(rows, selects.domainFilter.value, selects.statusFilter.value,
           selects.facultyFilter.value)

\* app.js:41 after app.js:40: the view is rendered from the refilled selects
ShowRows(rows, selects) == PageWith(rows, selects, RenderSelected(rows, selects))

\* app.js:39-41 with render called before populateFilterOptions
LoadRowsRenderFirst(rows, page) ==
    PageWith(rows, populateFilterOptions(rows, page), RenderSelected(rows, page))

\* app.js:39-41
LoadRows(rows, page) == ShowRows(rows, populateFilterOptions(rows, page))

\* a reader.onload that empties the record set before it parses
onloadClearFirst(file, page) ==
    IF ~file.readable THEN ShowRows(<<>>, page)
    ELSE ShowRows(NormalizeAll(file.rows),
                  populateFilterOptions(NormalizeAll(file.rows), page))

\* reader.onload, app.js:32-42, on the page `page`.  XLSX.read throws on
\* bytes it cannot read, before anything is assigned.
onload(file, page) ==
    IF ~file.readable THEN page ELSE LoadRows(NormalizeAll(file.rows), page)

\* a change listener of app.js:23-25, after the user picked `value` in `el`
onchange(el, value, page) ==
    ShowRows(page.allRows, [page EXCEPT ![el].value = value])

SetPage(page) ==
    /\ allRows' = page.allRows
    /\ domainFilter' = page.domainFilter
    /\ statusFilter' = page.statusFilter
    /\ facultyFilter' = page.facultyFilter
    /\ summary' = page.summary
    /\ tableBody' = page.tableBody
    /\ charts' = page.charts

\* no function is under test
Idle == input = [fn |-> "none", args |-> <<>>] /\ output = <<>>

\* the page as the script finds it, app.js:15-20
PageInit ==
    /\ allRows = <<>>
    /\ charts = NoCharts
    /\ domainFilter = EmptySelect
    /\ statusFilter = EmptySelect
    /\ facultyFilter = EmptySelect
    /\ summary = InitialView.summary
    /\ tableBody = InitialView.tableBody
    /\ pending = EmptyBag
    /\ lastEvent = "none"
    /\ lastSelected = NoFile

Init == PageInit /\ Idle

\* handleFileUpload with a file chosen: a new FileReader starts reading
SelectFile(file) ==
    /\ BagCardinality(pending) < MaxPending
    /\ pending' = pending (+) SetToBag({file})
    /\ lastEvent' = "select"
    /\ UNCHANGED <<domVars, input, output>>

\* handleFileUpload with the dialog dismissed: if (!file) return
CancelFileDialog ==
    /\ UNCHANGED vars

\* a pending read completes and its onload callback runs
ReadComplete(file) ==
    /\ BagIn(file, pending)
    /\ pending' = pending (-) SetToBag({file})
    /\ \E page \in {onload(file, Page)} : SetPage(page)
    /\ lastEvent' = IF file.readable THEN "load" ELSE "loadFailed"
    /\ UNCHANGED <<lastSelected, input, output>>

\* the user picks another option of one of the three selects
FilterChange(el, value) ==
    /\ \E i \in 1..Len(Page[el].options) : Page[el].options[i].value = value
    /\ value # Page[el].value
    /\ \E page \in {onchange(el, value, Page)} : SetPage(page)
    /\ lastEvent' = "filter"
    /\ UNCHANGED <<pending, lastSelected, input, output>>

FilterElements == {"domainFilter", "statusFilter", "facultyFilter"}

OptionValues(el) == {Page[el].options[i].value : i \in 1..Len(Page[el].options)}

Next ==
    \/ \E file \in Files : SelectFile(file) /\ UNCHANGED lastSelected
    \/ CancelFileDialog
    \/ \E file \in Files : ReadComplete(file)
    \/ \E el \in FilterElements : \E value \in OptionValues(el) : FilterChange(el, value)

Spec == Init /\ [][Next]_vars

-----------------------------------------------------------------------------
(* The race of two reads: the same handlers, with the file chosen last     *)
(* recorded and one more reader allowed in flight                          *)

SelectFileRace(file) ==
    /\ BagCardinality(pending) < MaxPending + 1
    /\ pending' = pending (+) SetToBag({file})
    /\ lastEvent' = "select"
    /\ lastSelected' = file
    /\ UNCHANGED <<domVars, input, output>>

NextRace ==
    \/ \E file \in Files : SelectFileRace(file)
    \/ \E file \in Files : ReadComplete(file)
    \/ \E el \in FilterElements : \E value \in OptionValues(el) : FilterChange(el, value)

SpecRace == Init /\ [][NextRace]_vars

-----------------------------------------------------------------------------
(* The functions on their own: Init draws the arguments, the action calls  *)

pageVars == <<domVars, pending, lastEvent, lastSelected>>

Call(fn, args) == [fn |-> fn, args |-> args]

\* cells of a text column
TextCells ==
    {Undefined, StrV(<<>>), StrV(<<"B">>), StrV(<<" ", "a", "\t">>), StrV(<<" ">>),
     NumV(Fin(7, 0)), BoolV(TRUE), BoolV(FALSE)}

AmountChars == {"0", "1", "5", ",", ".", "-", " ", "a", "Infinity"}

\* cells of the amount column: every string of at most MaxLen units, the
\* strings of the documented scenarios, and cells that are not strings
AmountCells ==
    {StrV(cs) : cs \in SeqsUpTo(AmountChars, MaxLen)}
        \cup {StrV(<<"2", ",", "5", "0", "0">>),
              StrV(<<"1", ",", "2", "3", "4", ".", "5">>),
              StrV(<<"a", "b", "c">>),
              Undefined, NumV(Zero), NumV(Fin(2500, 0)), NumV(Fin(125, 1)),
              NumV(Fin(-3, 0)), NumV(NaN), BoolV(TRUE), BoolV(FALSE)}

RawRows ==
    {Row(StrV(<<"B">>), StrV(<<"o">>), StrV(<<"k">>), a) : a \in AmountCells}
        \cup {Row(t, t, t, StrV(<<"1", "0">>)) : t \in TextCells}
        \cup {("Domain" :> t) @@ ("Status" :> t) : t \in TextCells}
        \cup {("Amount(in lakhs)" :> a) : a \in AmountCells}
        \cup {<<>>, ("Notes" :> StrV(<<"a">>))}

InitNormalize ==
    /\ PageInit
    /\ input \in {Call("normalizeRow", <<row>>) : row \in RawRows}
    /\ output = <<>>

CallNormalizeRow ==
    /\ input.fn = "normalizeRow"
    /\ output = <<>>
    /\ output' = <<normalizeRow(input.args[1])>>
    /\ UNCHANGED <<pageVars, input>>

NextNormalize == CallNormalizeRow

SpecNormalize == InitNormalize /\ [][NextNormalize]_vars

Record(domain, status, faculty, amount) ==
    [Domain |-> domain, ProjectType |-> <<>>, Title |-> <<>>, FundingAgency |-> <<>>,
     Amount |-> amount, Status |-> status, FacultyName |-> faculty]

FilterValues == {<<>>, <<"B">>, <<"a">>}

FilterRecords ==
    {Record(d, st, f, Fin(10, 0)) :
        d \in FilterValues, st \in {<<>>, <<"o">>}, f \in {<<>>, <<"k">>}}

InitFilter ==
    /\ PageInit
    /\ input \in {Call("applyFilters", <<rows, d, st, f>>) :
                    rows \in SeqsUpTo(FilterRecords, MaxRows),
                    d \in FilterValues, st \in {<<>>, <<"o">>}, f \in {<<>>, <<"k">>}}
    /\ output = <<>>

CallApplyFilters ==
    /\ input.fn = "applyFilters"
    /\ output = <<>>
    /\ output' = <<applyFilters(input.args[1], input.args[2], input.args[3],
                                input.args[4])>>
    /\ UNCHANGED <<pageVars, input>>

NextFilter == CallApplyFilters

SpecFilter == InitFilter /\ [][NextFilter]_vars

ConstructorKey == <<"c", "o", "n", "s", "t", "r", "u", "c", "t", "o", "r">>

\* domain names a sheet may carry: plain words, numerals, names that plain
\* objects inherit, and none
AggregateKeys ==
    {<<>>, <<"B">>, <<"a">>, <<"7">>, <<"1", "0">>, ConstructorKey, ProtoKey}

AggregateRecords ==
    {Record(d, st, <<>>, amount) :
        d \in AggregateKeys, st \in {<<>>, <<"o">>}, amount \in {Zero, Fin(25, 1)}}

KeyFns == {"r.Domain || Unknown", "r.Status || Unknown", "r.Domain"}

ValueFns == {"undefined", "r.Amount || 0"}

InitAggregate ==
    /\ PageInit
    /\ input \in {Call("aggregateBy", <<rows, keyFn, valueFn>>) :
                    rows \in SeqsUpTo(AggregateRecords, MaxRows),
                    keyFn \in KeyFns, valueFn \in ValueFns}
    /\ output = <<>>

CallAggregateBy ==
    /\ input.fn = "aggregateBy"
    /\ output = <<>>
    /\ output' = <<aggregateBy(input.args[1], input.args[2], input.args[3])>>
    /\ UNCHANGED <<pageVars, input>>

NextAggregate == CallAggregateBy

SpecAggregate == InitAggregate /\ [][NextAggregate]_vars

-----------------------------------------------------------------------------
(* Properties *)

FieldOf(el) ==
    CASE el = "domainFilter" -> "Domain"
      [] el = "statusFilter" -> "Status"
      [] el = "facultyFilter" -> "FacultyName"

\* the distinct non-empty values of a field across a record set
DistinctNonEmpty(rows, field) == {rows[i][field] : i \in 1..Len(rows)} \ {<<>>}

\* a record matches a selection: every non-empty selected field is equal
Matches(r, domain, status, faculty) ==
    /\ domain # <<>> => r.Domain = domain
    /\ status # <<>> => r.Status = status
    /\ faculty # <<>> => r.FacultyName = faculty

\* the indices of the records of rows that match
MatchingIndices(rows, domain, status, faculty) ==
    {i \in 1..Len(rows) : Matches(rows[i], domain, status, faculty)}

\* out is rows restricted to the index set M, in the order of rows
IsRestriction(out, rows, M) ==
    /\ Len(out) = Cardinality(M)
    /\ \A i \in M : out[Cardinality({j \in M : j <= i})] = rows[i]

RECURSIVE SumNumbers(_)
SumNumbers(xs) ==
    IF xs = <<>> THEN Zero ELSE Add(SumNumbers(Tail(xs)), Head(xs))

\* the elements of a sequence, each at its first occurrence only
RECURSIVE FirstOccurrences(_)
FirstOccurrences(xs) ==
    IF xs = <<>> THEN <<>>
    ELSE LET before == FirstOccurrences(SubSeq(xs, 1, Len(xs) - 1))
         IN  IF Includes(before, xs[Len(xs)]) THEN before
             ELSE Append(before, xs[Len(xs)])

\* C1, in every state: each filter's selected value is empty or one of the
\* distinct non-empty values of its field in the current record set.
C1SelectionValid ==
    \A el \in FilterElements :
        Page[el].value \in {<<>>} \cup DistinctNonEmpty(allRows, FieldOf(el))

\* C1, a completed load: a filter keeps its value when that value is
\* non-empty and among the values of the newly loaded records, and is reset
\* to the empty value otherwise.
C1LoadStep ==
    lastEvent' = "load" =>
        \A el \in FilterElements :
            Page'[el].value =
                IF /\ Page[el].value # <<>>
                   /\ Page[el].value \in DistinctNonEmpty(allRows', FieldOf(el))
                THEN Page[el].value ELSE <<>>

\* C1: after any completed file load each filter keeps a previous non-empty
\* selection that is still an option and is reset to "no constraint"
\* otherwise; in every reachable state each selection is empty or a member
\* of the current option set.
C1Theorem == [](C1SelectionValid) /\ [][C1LoadStep]_vars

\* C1 witness: a load has completed and kept a non-empty domain selection
C1Witness ==
    /\ lastEvent = "load"
    /\ domainFilter.value # <<>>
    /\ statusFilter.value = <<>>
    /\ Len(allRows) = 2

\* C2: when the selected file cannot be parsed, the load leaves the record
\* set, the three filters (options and selection) and the displayed summary,
\* table and charts exactly as they were.
C2Theorem == [][lastEvent' = "loadFailed" => UNCHANGED domVars]_vars

\* C2 witness: a load has failed on a page that shows filtered records
C2Witness ==
    /\ lastEvent = "loadFailed"
    /\ allRows # <<>>
    /\ domainFilter.value # <<>>
    /\ tableBody # <<>>

View == [summary |-> summary, tableBody |-> tableBody, charts |-> charts]

\* C3, after a load or a filter change: the view is the one computed from
\* the current record set and the current selection.
C3ViewCurrent ==
    lastEvent \in {"load", "filter"} =>
        View = render(allRows, domainFilter.value, statusFilter.value,
                      facultyFilter.value)

\* C3, between those events: nothing of the page changes.
C3Quiescent == lastEvent' \notin {"load", "filter"} => UNCHANGED domVars

\* C3: after every handled event (a load completion or a filter change) the
\* displayed view equals the view computed from scratch from the current
\* record set and selection, and no state in between shows an older one.
C3Theorem == [](C3ViewCurrent) /\ [][C3Quiescent]_vars

\* C3 witness: a filter change has hidden some of the loaded records
C3Witness ==
    /\ lastEvent = "filter"
    /\ allRows # <<>>
    /\ Len(tableBody) < Len(allRows)

\* C4: applyFilters returns exactly the records matching every non-empty
\* selected field, in input order; with no field constrained it returns the
\* input unchanged.
C4Theorem ==
    (input.fn = "applyFilters" /\ output # <<>>) =>
        LET rows    == input.args[1]
            domain  == input.args[2]
            status  == input.args[3]
            faculty == input.args[4]
        IN  /\ IsRestriction(output[1], rows,
                             MatchingIndices(rows, domain, status, faculty))
            /\ (domain = <<>> /\ status = <<>> /\ faculty = <<>>) => output[1] = rows

\* C4 witness: two constrained fields keep the second of two records only
C4Witness ==
    /\ input.fn = "applyFilters"
    /\ output # <<>>
    /\ Len(input.args[1]) = 2
    /\ input.args[2] # <<>>
    /\ input.args[3] # <<>>
    /\ output[1] = <<input.args[1][2]>>

\* C5: the values of aggregateBy are numbers that sum to the sum of the
\* contributions of all records (their count with no value function); a
\* record with an empty key is counted under "Unknown" and never under the
\* empty key.
C5Claim ==
    (input.fn = "aggregateBy" /\ output # <<>>) =>
        LET rows     == input.args[1]
            keyFn    == input.args[2]
            valueFn  == input.args[3]
            acc      == output[1]
            given(r) == IF valueFn = "undefined" THEN One ELSE CallValueFn(valueFn, r)
        IN  /\ \A i \in 1..Len(acc) : acc[i].value.type = "number"
            /\ SumNumbers([i \in 1..Len(acc) |-> acc[i].value.n])
                  = SumNumbers([i \in 1..Len(rows) |-> given(rows[i])])
            /\ valueFn = "undefined" =>
                  SumNumbers([i \in 1..Len(acc) |-> acc[i].value.n]) = Fin(Len(rows), 0)
            /\ ~HasOwn(acc, <<>>)
            /\ \A i \in 1..Len(rows) :
                  CallKeyFn(keyFn, rows[i]) = <<>> => HasOwn(acc, Unknown)

\* C6: the keys of an aggregation result are enumerated in the order of their
\* first occurrence in the record sequence, and the funding-by-domain chart
\* has the labels of the projects-by-domain chart.
C6Claim ==
    (input.fn = "aggregateBy" /\ output # <<>>) =>
        LET rows   == input.args[1]
            keyFn  == input.args[2]
            key(r) == IF CallKeyFn(keyFn, r) = <<>> THEN Unknown ELSE CallKeyFn(keyFn, r)
        IN  /\ ObjectKeys(output[1])
                  = FirstOccurrences([i \in 1..Len(rows) |-> key(rows[i])])
            /\ renderCharts(rows).fundingByDomain[1].labels
                  = renderCharts(rows).projectsByDomain[1].labels

\* C7: for every raw row normalizeRow yields a finite Amount: the number
\* parsed from the raw value's string form without its commas when that
\* number is finite, and 0 otherwise.
C7Claim ==
    (input.fn = "normalizeRow" /\ output # <<>>) =>
        LET raw    == Cell(input.args[1], "Amount(in lakhs)")
            parsed == ParseFloat(RemoveCommas(StringOf(raw)))
        IN  /\ IsFinite(output[1].Amount)
            /\ output[1].Amount = IF IsFinite(parsed) THEN parsed ELSE Zero

\* C8: the placeholder view is shown for the empty record set and for it
\* only: for a non-empty record set and any selection the summary holds the
\* count of the visible records, the sum of their amounts with two decimals
\* and the number of their distinct non-empty domains, and three charts are
\* produced.
C8Claim ==
    lastEvent \in {"load", "filter"} =>
        IF allRows = <<>>
        THEN /\ summary = [totalProjects |-> Dash, totalFunding |-> Dash,
                           uniqueDomains |-> Dash, statusBreakdown |-> Dash]
             /\ tableBody = <<>>
             /\ \A c \in DOMAIN charts : charts[c] = <<>>
        ELSE LET M       == MatchingIndices(allRows, domainFilter.value,
                                            statusFilter.value, facultyFilter.value)
                 visible == SelectSeq(allRows, LAMBDA r :
                                Matches(r, domainFilter.value, statusFilter.value,
                                        facultyFilter.value))
                 total   == SumNumbers([i \in 1..Len(visible) |-> visible[i].Amount])
             IN  /\ summary.totalProjects = NatToString(Cardinality(M))
                 /\ IsFinite(total)
                 /\ summary.totalFunding = ToFixed2(total)
                 /\ summary.uniqueDomains
                       = NatToString(Cardinality(DistinctNonEmpty(visible, "Domain")))
                 /\ \A c \in DOMAIN charts : charts[c] # <<>>

\* the option list of a select, without its first entry
ValuesOffered(el) ==
    [i \in 1..(Len(Page[el].options) - 1) |-> Page[el].options[i + 1].value]

\* a sequence ascends strictly under a three-way comparison
AscendingBy(xs, level) ==
    \A i \in 1..(Len(xs) - 1) :
        IF level = "locale" THEN LocaleCompare(xs[i], xs[i + 1]) < 0
        ELSE CompareBy(xs[i], xs[i + 1], "codeunit") < 0

OptionsListed(el, level) ==
    /\ Page[el].options # <<>>
    /\ Page[el].options[1] = [value |-> <<>>, text |-> <<"A", "l", "l">>]
    /\ \A i \in 2..Len(Page[el].options) :
          Page[el].options[i].text = Page[el].options[i].value
    /\ {ValuesOffered(el)[i] : i \in 1..Len(ValuesOffered(el))}
          = DistinctNonEmpty(allRows, FieldOf(el))
    /\ AscendingBy(ValuesOffered(el), level)

C10Claim ==
    (pending = EmptyBag /\ lastSelected.readable) =>
        LET rows == NormalizeAll(lastSelected.rows)
        IN  /\ allRows = rows
            /\ \A el \in FilterElements :
                  OptionValues(el) = {<<>>} \cup DistinctNonEmpty(rows, FieldOf(el))
            /\ View = render(rows, domainFilter.value, statusFilter.value,
                             facultyFilter.value)

====
